---- MODULE Spec2Model ----
(***************************************************************************)
(* The data integration and caching layer of the HVAC assistant:           *)
(* DataIntegrationManager (src/scripts/data_integration.py) over its       *)
(* SQLite store and the vendor (Thermia) API.                              *)
(*                                                                         *)
(* Conventions.  An Optional value is a sequence: None is <<>> and a       *)
(* present value v is <<v>>.  Python floats are kept as integers: a        *)
(* temperature or an operating time is in tenths (22.5 is 225), a          *)
(* historical value is in 1/24ths (the synthetic generator divides the     *)
(* hour by 24).  A datetime on a whole hour is the number of hours since   *)
(* an epoch midnight, so its .hour is the value modulo 24.                 *)
(***************************************************************************)
EXTENDS Integers, Sequences, FiniteSets, TLC

VARIABLES
    environ,          \* os.environ: USE_MOCK_DATA, THERMIA_USERNAME, THERMIA_PASSWORD
    use_mock_data,    \* DataIntegrationManager.use_mock_data
    thermia,          \* DataIntegrationManager.thermia: None, or <<"Thermia">> when connected
    hvac_systems,     \* table hvac_systems: a set of rows
    historical_data,  \* table historical_data: a set of rows
    vendor,           \* the vendor API: whether it answers, and the heat pumps it lists
    now,              \* the store's clock (CURRENT_TIMESTAMP)
    lastOp,           \* the last operation: its name, arguments, gateway used, store outcome
    ret,              \* what the last operation returned
    repeat,           \* "no", or that the last operation was a get_live_system_data() right
                      \* after another one, whose store write went "ok" or "failed"
    raised,           \* whether the last operation let an exception out to its caller
    issued,           \* the commands the last operation sent to the vendor's devices
    integration,      \* the ThermiaHVACIntegration object: None until constructed
    pc,               \* get_ai_system_instance: where each concurrent caller stands
    _ai_system,       \* app._ai_system: None, or the instance kept
    built,            \* how many AIRAGChat instances have been constructed
    got,              \* what get_ai_system_instance returned to each caller
    txn,              \* _cache_system_data run by concurrent calls: each one's connection
    db_lock           \* the database file's write lock: None, or <<w>> held by call w

\* The variables of the accessor get_ai_system_instance and its callers.
singletonVars == <<pc, _ai_system, built, got>>

\* The variables of the concurrent store writers.
writerVars == <<txn, db_lock>>

vars == <<environ, use_mock_data, thermia, hvac_systems, historical_data,
          vendor, now, lastOp, ret, repeat, raised, issued, integration,
          pc, _ai_system, built, got, txn, db_lock>>

\* ---------------------------------------------------------------- bounds

\* The store's clock runs from 1 to MaxClock (0 is the time of an earlier run).
MaxClock == 2
\* The historical table is followed up to MaxRows rows.
MaxRows == 2
\* Historical requests range over the hours FirstHour .. FirstHour + MaxSpan;
\* FirstHour is 23:00 of the epoch day, so the range crosses midnight.
FirstHour == 23
MaxSpan == 1
\* MaxCallers threads call get_ai_system_instance concurrently.
MaxCallers == 3
\* MaxWriters calls of get_live_system_data write to the store concurrently.
MaxWriters == 2

Callers == 1..MaxCallers

Writers == 1..MaxWriters

\* ------------------------------------------------------- optional values

None == <<>>

Some(v) == <<v>>

\* Python truthiness of an Optional[str]: None and "" are false.
TruthyStr(o) == o # None /\ o[1] # ""

\* Python truthiness of an Optional[float]: None and 0 are false.
TruthyNum(o) == o # None /\ o[1] # 0

\* -------------------------------------------------------- synthetic data

MockSystem1 ==
    [ name |-> "Thermia Diplomat Duo", id |-> "mock-system-1", model |-> "Diplomat Duo",
      is_online |-> TRUE,
      indoor_temperature |-> Some(225), outdoor_temperature |-> Some(-52),
      hot_water_temperature |-> Some(450), heat_temperature |-> Some(210),
      supply_line_temperature |-> Some(350), return_line_temperature |-> Some(300),
      operation_mode |-> "Heating", active_alarms |-> <<>>,
      compressor_operational_time |-> Some(12505),
      last_online |-> Some("2024-01-15T10:30:00Z"),
      heat_min_temperature_value |-> Some(150), heat_max_temperature_value |-> Some(300),
      heat_temperature_step |-> Some(5),
      available_operation_modes |-> <<"Heating", "Cooling", "Auto">>,
      running_operational_statuses |-> <<"Compressor Running", "Circulation Pump Active">>,
      historical_data |-> None ]

MockSystem2 ==
    [ name |-> "Thermia Calibra", id |-> "mock-system-2", model |-> "Calibra",
      is_online |-> TRUE,
      indoor_temperature |-> Some(230), outdoor_temperature |-> Some(-38),
      hot_water_temperature |-> Some(480), heat_temperature |-> Some(220),
      supply_line_temperature |-> Some(380), return_line_temperature |-> Some(320),
      operation_mode |-> "Auto", active_alarms |-> <<"Low refrigerant pressure">>,
      compressor_operational_time |-> Some(8902),
      last_online |-> Some("2024-01-15T10:25:00Z"),
      heat_min_temperature_value |-> Some(160), heat_max_temperature_value |-> Some(280),
      heat_temperature_step |-> Some(5),
      available_operation_modes |-> <<"Heating", "Cooling", "Auto", "DHW">>,
      running_operational_statuses |-> <<"Compressor Running", "DHW Pump Active">>,
      historical_data |-> None ]

\* A faulty variant of _get_mock_system_data: a generator that yields no device.
MockSystemDataEmpty == <<>>

_get_mock_system_data == <<MockSystem1, MockSystem2>>

\* ------------------------------------------------------------ the vendor

\* ThermiaHeatPump objects the vendor API can list (the attributes the manager reads).
HeatPump(id, online, indoor, heat, alarms, statuses) ==
    [ name |-> "Villa", id |-> id, model |-> "Atlas",
      is_online |-> online,
      indoor_temperature |-> indoor, outdoor_temperature |-> Some(121),
      hot_water_temperature |-> Some(500), heat_temperature |-> heat,
      supply_line_temperature |-> Some(330), return_line_temperature |-> Some(290),
      operation_mode |-> "Heating", active_alarms |-> alarms,
      compressor_operational_time |-> Some(9000),
      last_online |-> Some("2024-02-01T07:00:00Z"),
      heat_min_temperature_value |-> Some(150), heat_max_temperature_value |-> Some(300),
      heat_temperature_step |-> Some(5),
      available_operation_modes |-> <<"Heating", "Auto">>,
      running_operational_statuses |-> statuses ]

PumpA1 == HeatPump("hp-1", TRUE, Some(215), Some(210), <<>>, <<"Compressor Running">>)

PumpA2 == HeatPump("hp-1", FALSE, None, Some(260), <<"Communication Error">>, <<>>)

PumpB == HeatPump("hp-2", TRUE, Some(0), Some(200), <<>>, <<"Standby">>)

\* The lists fetch_heat_pumps can answer with; device ids are unique in each.
VendorLists == { <<PumpA1>>, <<PumpA2, PumpB>> }

\* The device ids of the synthetic gateway and of the vendor's lists.
SystemIds == { "mock-system-1", "mock-system-2", "hp-1", "hp-2" }

\* The system_id arguments followed: no id, a synthetic id, a vendor id and an id
\* nobody knows.  (Callers never pass "": the Flask routes and ask_question exclude it.)
SystemIdArgs == { None, Some("mock-system-1"), Some("hp-1"), Some("invalid-id") }

\* ------------------------------------------------------------- the store

\* sqlite3 adapts a Python bool to an INTEGER column value.
BoolToInt(b) == IF b THEN 1 ELSE 0

\* json.dumps of a list of strings, kept as the text's content.
json_dumps(l) == [ json |-> l ]

json_loads(t) == t.json

\* The row _cache_system_data binds for one system, stamped CURRENT_TIMESTAMP.
SystemToRow(s, ts) ==
    [ id |-> s.id, name |-> s.name, model |-> s.model,
      is_online |-> BoolToInt(s.is_online),
      indoor_temperature |-> s.indoor_temperature,
      outdoor_temperature |-> s.outdoor_temperature,
      hot_water_temperature |-> s.hot_water_temperature,
      heat_temperature |-> s.heat_temperature,
      supply_line_temperature |-> s.supply_line_temperature,
      return_line_temperature |-> s.return_line_temperature,
      operation_mode |-> s.operation_mode,
      active_alarms |-> json_dumps(s.active_alarms),
      compressor_operational_time |-> s.compressor_operational_time,
      last_online |-> s.last_online,
      heat_min_temperature_value |-> s.heat_min_temperature_value,
      heat_max_temperature_value |-> s.heat_max_temperature_value,
      heat_temperature_step |-> s.heat_temperature_step,
      available_operation_modes |-> json_dumps(s.available_operation_modes),
      running_operational_statuses |-> json_dumps(s.running_operational_statuses),
      updated_at |-> ts ]

\* The HVACSystemData get_cached_system_data builds from one row.
RowToSystem(row) ==
    [ name |-> row.name, id |-> row.id, model |-> row.model,
      is_online |-> (row.is_online # 0),
      indoor_temperature |-> row.indoor_temperature,
      outdoor_temperature |-> row.outdoor_temperature,
      hot_water_temperature |-> row.hot_water_temperature,
      heat_temperature |-> row.heat_temperature,
      supply_line_temperature |-> row.supply_line_temperature,
      return_line_temperature |-> row.return_line_temperature,
      operation_mode |-> row.operation_mode,
      active_alarms |-> json_loads(row.active_alarms),
      compressor_operational_time |-> row.compressor_operational_time,
      last_online |-> row.last_online,
      heat_min_temperature_value |-> row.heat_min_temperature_value,
      heat_max_temperature_value |-> row.heat_max_temperature_value,
      heat_temperature_step |-> row.heat_temperature_step,
      available_operation_modes |-> json_loads(row.available_operation_modes),
      running_operational_statuses |-> json_loads(row.running_operational_statuses),
      historical_data |-> None ]

\* A faulty variant of InsertOrReplaceSystem: a plain INSERT into a table without the key.
InsertSystem(table, row) == table \cup { row }

\* INSERT OR REPLACE INTO hvac_systems: id is the PRIMARY KEY, so a row with the same
\* id is deleted before the new row is inserted.
InsertOrReplaceSystem(table, row) == { r \in table : r.id # row.id } \cup { row }

RECURSIVE CacheRows(_, _, _)
CacheRows(table, systems_data, ts) ==
    IF systems_data = <<>> THEN table
    ELSE CacheRows(InsertOrReplaceSystem(table, SystemToRow(Head(systems_data), ts)),
                   Tail(systems_data), ts)

\* A faulty variant of _cache_system_data: every row is committed on its own, so a
\* write that fails after the first row leaves that row behind.
CacheSystemDataRowCommit(table, systems_data, ts, write_ok) ==
    IF write_ok THEN CacheRows(table, systems_data, ts)
    ELSE IF systems_data = <<>> THEN table
    ELSE InsertOrReplaceSystem(table, SystemToRow(Head(systems_data), ts))

\* A faulty variant of _cache_system_data: the commit is missing, so nothing is stored.
CacheSystemDataNoCommit(table, systems_data, ts, write_ok) == table

\* _cache_system_data: every record of the batch in one transaction; when the write
\* raises, the exception is logged and the uncommitted transaction is rolled back.
_cache_system_data(table, systems_data, ts, write_ok) ==
    IF write_ok THEN CacheRows(table, systems_data, ts) ELSE table

\* The rows as get_cached_system_data reads them back.
StoredSystems(table) == { RowToSystem(r) : r \in table }

\* SELECT ... ORDER BY updated_at DESC: every order of the rows that is descending in
\* updated_at (SQL leaves the order of rows with equal keys open).
RECURSIVE OrderByUpdatedAtDesc(_)
OrderByUpdatedAtDesc(rows) ==
    IF rows = {} THEN { <<>> }
    ELSE UNION { { <<r>> \o q : q \in OrderByUpdatedAtDesc(rows \ { r }) } :
                 r \in { x \in rows : \A y \in rows : x.updated_at >= y.updated_at } }

\* A faulty variant of SelectSystems: the WHERE clause is missing.
SelectSystemsNoWhere(table, system_id) == OrderByUpdatedAtDesc(table)

\* The two SELECTs of get_cached_system_data: the possible row lists.
SelectSystems(table, system_id) ==
    IF TruthyStr(system_id)
    THEN OrderByUpdatedAtDesc({ r \in table : r.id = system_id[1] })
    ELSE OrderByUpdatedAtDesc(table)

\* ------------------------------------------------- the historical table

Hours == FirstHour .. (FirstHour + MaxSpan)

\* The register followed (the one the repository's tests ask for).
RegisterNames == { "indoor_temperature" }

\* "temperature" in register_name.lower()
HasTemperature(register_name) ==
    register_name \in { "indoor_temperature", "outdoor_temperature", "Heat_Temperature" }

\* "power" in register_name.lower()
HasPower(register_name) == register_name \in { "power_consumption", "Power" }

\* The value of one synthetic point, in 1/24ths: 20 + 5 * (hour / 24) for a
\* temperature, 2000 + 500 * (hour / 24) for a power, 100 + hour * 10 otherwise.
MockValue(register_name, current_time) ==
    LET hour == current_time % 24
    IN  IF HasTemperature(register_name) THEN 20 * 24 + 5 * hour
        ELSE IF HasPower(register_name) THEN 2000 * 24 + 500 * hour
        ELSE (100 + hour * 10) * 24

\* A faulty variant of _get_mock_historical_data: the loop stops before end_time.
RECURSIVE MockHistoricalDataExclusive(_, _, _, _)
MockHistoricalDataExclusive(system_id, register_name, start_time, end_time) ==
    IF start_time < end_time
    THEN << [ time |-> start_time, value |-> MockValue(register_name, start_time) ] >>
         \o MockHistoricalDataExclusive(system_id, register_name, start_time + 1, end_time)
    ELSE <<>>

\* while current_time <= end_time: data.append(...); current_time += timedelta(hours=1)
RECURSIVE _get_mock_historical_data(_, _, _, _)
_get_mock_historical_data(system_id, register_name, start_time, end_time) ==
    IF start_time <= end_time
    THEN << [ time |-> start_time, value |-> MockValue(register_name, start_time) ] >>
         \o _get_mock_historical_data(system_id, register_name, start_time + 1, end_time)
    ELSE <<>>

\* What heat_pump.get_historical_data_for_register can answer: the vendor keeps the
\* readings it took, so nothing, one reading, or two readings within the same hour.
VendorHistory(start_time, end_time) ==
    IF start_time <= end_time
    THEN { <<>>,
           << [ time |-> start_time, value |-> 500 ] >>,
           << [ time |-> end_time, value |-> 500 ], [ time |-> end_time, value |-> 510 ] >> }
    ELSE { <<>> }

\* The id SQLite gives a row inserted without one (INTEGER PRIMARY KEY AUTOINCREMENT).
NextRowId(table) ==
    IF table = {} THEN 1
    ELSE (CHOOSE m \in { r.id : r \in table } : \A r \in table : r.id <= m) + 1

\* INSERT OR REPLACE INTO historical_data (system_id, register_name, value, timestamp):
\* the only key is the generated id, so no existing row ever conflicts.
InsertOrReplaceHistorical(table, system_id, register_name, record) ==
    LET row == [ id |-> NextRowId(table), system_id |-> system_id,
                 register_name |-> register_name,
                 value |-> record.value, timestamp |-> record.time ]
    IN  { r \in table : r.id # row.id } \cup { row }

RECURSIVE CacheHistoricalRows(_, _, _, _)
CacheHistoricalRows(table, system_id, register_name, data) ==
    IF data = <<>> THEN table
    ELSE CacheHistoricalRows(
             InsertOrReplaceHistorical(table, system_id, register_name, Head(data)),
             system_id, register_name, Tail(data))

\* _cache_historical_data: the batch in one transaction; a failing write is logged and
\* rolled back.
_cache_historical_data(table, system_id, register_name, data, write_ok) ==
    IF write_ok THEN CacheHistoricalRows(table, system_id, register_name, data) ELSE table

\* ---------------------------------------------------------- construction

\* os.getenv('USE_MOCK_DATA', 'true').lower() == 'true'
UseMockDataFlag(env) ==
    IF env.USE_MOCK_DATA = None THEN TRUE ELSE env.USE_MOCK_DATA[1] = "true"

\* A faulty variant of CredentialsMissing: only the username is looked at.
CredentialsMissingUserOnly(env) == ~TruthyStr(env.THERMIA_USERNAME)

\* not username or not password
CredentialsMissing(env) ==
    ~TruthyStr(env.THERMIA_USERNAME) \/ ~TruthyStr(env.THERMIA_PASSWORD)

\* _initialize_thermia_connection: the mode flag and the connection after __init__;
\* login_ok is whether Thermia(username, password) returns rather than raises.
InitUseMockData(env, login_ok) ==
    UseMockDataFlag(env) \/ CredentialsMissing(env) \/ ~login_ok

InitThermia(env, login_ok) ==
    IF UseMockDataFlag(env) \/ CredentialsMissing(env) \/ ~login_ok
    THEN None ELSE Some("Thermia")

Environments ==
    [ USE_MOCK_DATA : { None, Some("false") },
      THERMIA_USERNAME : { None, Some("user") },
      THERMIA_PASSWORD : { None, Some("secret") } ]

\* The database file is kept between runs (CREATE TABLE IF NOT EXISTS): a manager is
\* built over an empty store or over what an earlier run in synthetic mode cached.
PriorSystems == _cache_system_data({}, _get_mock_system_data, 0, TRUE)

PriorHistorical ==
    _cache_historical_data({}, "mock-system-1", "indoor_temperature",
        _get_mock_historical_data("mock-system-1", "indoor_temperature",
                                  FirstHour, FirstHour), TRUE)

\* A call that has not opened its connection yet.
IdleTxn == [ pc |-> "idle", system_id |-> None, batch |-> <<>>, written |-> 0 ]

\* A lastOp value; every operation fills every field.
Op(name, system_id, args, gateway, store_ok) ==
    [ op |-> name, system_id |-> system_id, args |-> args,
      gateway |-> gateway, store_ok |-> store_ok ]

Init ==
    /\ environ \in Environments
    /\ \E login_ok \in BOOLEAN :
          /\ use_mock_data = InitUseMockData(environ, login_ok)
          /\ thermia = InitThermia(environ, login_ok)
    /\ \E prior \in BOOLEAN :
          /\ hvac_systems = (IF prior THEN PriorSystems ELSE {})
          /\ historical_data = (IF prior THEN PriorHistorical ELSE {})
    /\ vendor = [ up |-> TRUE, heat_pumps |-> <<PumpA1>> ]
    /\ now = 1
    /\ lastOp = Op("__init__", None, <<>>, "none", TRUE)
    /\ ret = <<>>
    /\ repeat = "no"
    /\ raised = FALSE
    /\ issued = <<>>
    /\ integration = None
    /\ pc = [ c \in Callers |-> "idle" ]
    /\ _ai_system = None
    /\ built = 0
    /\ got = [ c \in Callers |-> None ]
    /\ txn = [ w \in Writers |-> IdleTxn ]
    /\ db_lock = None

\* ------------------------------------------------- get_live_system_data

\* A faulty variant of FilterSystems: the filter is dropped.
FilterSystemsNone(systems_data, system_id) == systems_data

\* if system_id: systems_data = [s for s in systems_data if s.id == system_id]
FilterSystems(systems_data, system_id) ==
    IF TruthyStr(system_id)
    THEN SelectSeq(systems_data, LAMBDA s : s.id = system_id[1])
    ELSE systems_data

\* HVACSystemData(name=heat_pump.name, ..., historical_data=None)
HeatPumpToSystem(heat_pump) ==
    [ name |-> heat_pump.name, id |-> heat_pump.id, model |-> heat_pump.model,
      is_online |-> heat_pump.is_online,
      indoor_temperature |-> heat_pump.indoor_temperature,
      outdoor_temperature |-> heat_pump.outdoor_temperature,
      hot_water_temperature |-> heat_pump.hot_water_temperature,
      heat_temperature |-> heat_pump.heat_temperature,
      supply_line_temperature |-> heat_pump.supply_line_temperature,
      return_line_temperature |-> heat_pump.return_line_temperature,
      operation_mode |-> heat_pump.operation_mode,
      active_alarms |-> heat_pump.active_alarms,
      compressor_operational_time |-> heat_pump.compressor_operational_time,
      last_online |-> heat_pump.last_online,
      heat_min_temperature_value |-> heat_pump.heat_min_temperature_value,
      heat_max_temperature_value |-> heat_pump.heat_max_temperature_value,
      heat_temperature_step |-> heat_pump.heat_temperature_step,
      available_operation_modes |-> heat_pump.available_operation_modes,
      running_operational_statuses |-> heat_pump.running_operational_statuses,
      historical_data |-> None ]

\* The loop over heat_pumps: a device is kept if system_id is None or it has that id.
RECURSIVE LiveSystems(_, _)
LiveSystems(heat_pumps, system_id) ==
    IF heat_pumps = <<>> THEN <<>>
    ELSE LET system_data == HeatPumpToSystem(Head(heat_pumps))
         IN  IF system_id = None \/ system_data.id = system_id[1]
             THEN <<system_data>> \o LiveSystems(Tail(heat_pumps), system_id)
             ELSE LiveSystems(Tail(heat_pumps), system_id)

\* A faulty variant of TryExcept: the except clause is missing.
TryWithoutExcept(body_raises, handler_raises) == body_raises

\* try: ... except Exception as e: ... -- an exception leaves the statement only when
\* the body raises and the handler raises in its turn.
TryExcept(body_raises, handler_raises) == body_raises /\ handler_raises

\* _cache_system_data and _cache_historical_data wrap the whole write in a try whose
\* handler only logs.
CacheRaises(write_ok) == TryExcept(~write_ok, FALSE)

\* A faulty variant of GatewayUsed: after a fallback the manager stays synthetic.
GatewayUsedSticky ==
    IF use_mock_data \/ thermia = None \/ lastOp.gateway = "fallback" THEN "mock"
    ELSE IF vendor.up THEN "live" ELSE "fallback"

\* Which gateway a fetch ends up using: "mock" in synthetic mode, "live" when the
\* vendor answers, "fallback" when the live fetch raises.
GatewayUsed ==
    IF use_mock_data \/ thermia = None THEN "mock"
    ELSE IF vendor.up THEN "live" ELSE "fallback"

\* The list get_live_system_data obtains (and returns) on each of its three paths.
FetchSystems(system_id) ==
    IF GatewayUsed = "live"
    THEN LiveSystems(vendor.heat_pumps, system_id)
    ELSE FilterSystems(_get_mock_system_data, system_id)

\* The record of device i in a list, as an Optional.
Find(systems_data, i) ==
    LET hits == SelectSeq(systems_data, LAMBDA s : s.id = i)
    IN  IF hits = <<>> THEN None ELSE Some(hits[Len(hits)])

get_live_system_data(system_id, write_ok) ==
    LET systems_data == FetchSystems(system_id)
    IN  /\ hvac_systems' = _cache_system_data(hvac_systems, systems_data, now, write_ok)
        /\ ret' = systems_data
        /\ lastOp' = Op("get_live_system_data", system_id, <<>>, GatewayUsed, write_ok)
        /\ repeat' = IF /\ system_id = None
                         /\ lastOp.op = "get_live_system_data"
                         /\ lastOp.system_id = None
                      THEN (IF lastOp.store_ok THEN "ok" ELSE "failed")
                      ELSE "no"
        /\ raised' = TryExcept(GatewayUsed = "fallback" \/ CacheRaises(write_ok),
                               CacheRaises(write_ok))
        /\ issued' = <<>>
        /\ UNCHANGED <<environ, use_mock_data, thermia, historical_data, vendor, now>>
        /\ UNCHANGED <<integration, singletonVars, writerVars>>

\* ----------------------------------------------- get_cached_system_data

\* Reads the store only; a failing read is logged and answered with [].
get_cached_system_data(system_id, read_ok) ==
    /\ IF read_ok
       THEN \E rows \in SelectSystems(hvac_systems, system_id) :
               ret' = [ k \in 1..Len(rows) |-> RowToSystem(rows[k]) ]
       ELSE ret' = <<>>
    /\ lastOp' = Op("get_cached_system_data", system_id, <<>>, "none", read_ok)
    /\ repeat' = "no"
    /\ raised' = TryExcept(~read_ok, FALSE)
    /\ issued' = <<>>
    /\ UNCHANGED <<environ, use_mock_data, thermia, hvac_systems, historical_data,
                   vendor, now>>
    /\ UNCHANGED <<integration, singletonVars, writerVars>>

\* ---------------------------------------------------- get_historical_data

\* for hp in heat_pumps: if hp.id == system_id: heat_pump = hp; break
FindHeatPump(heat_pumps, system_id) ==
    LET hits == SelectSeq(heat_pumps, LAMBDA hp : hp.id = system_id)
    IN  IF hits = <<>> THEN None ELSE Some(Head(hits))

\* answer is what the vendor returns for the register, register_ok whether that call
\* returns rather than raises; both matter on the live path only.
get_historical_data(system_id, register_name, start_time, end_time, answer, register_ok, write_ok) ==
    LET mock == use_mock_data \/ thermia = None
        heat_pump == FindHeatPump(vendor.heat_pumps, system_id)
        raised_in_try == ~mock /\ (~vendor.up \/ (heat_pump # None /\ ~register_ok))
        not_found == ~mock /\ vendor.up /\ heat_pump = None
        gateway == IF mock THEN "mock" ELSE IF raised_in_try THEN "fallback" ELSE "live"
        data == IF not_found THEN <<>>
                ELSE IF gateway = "live" THEN answer
                ELSE _get_mock_historical_data(system_id, register_name,
                                               start_time, end_time)
    IN  /\ Cardinality(historical_data) + Len(data) <= MaxRows
        /\ historical_data' =
              IF not_found THEN historical_data
              ELSE _cache_historical_data(historical_data, system_id, register_name,
                                          data, write_ok)
        /\ ret' = data
        /\ lastOp' = Op("get_historical_data", Some(system_id),
                        <<register_name, start_time, end_time>>, gateway,
                        not_found \/ write_ok)
        /\ repeat' = "no"
        /\ raised' = TryExcept(raised_in_try \/ CacheRaises(write_ok),
                               CacheRaises(write_ok))
        /\ issued' = <<>>
        /\ UNCHANGED <<environ, use_mock_data, thermia, hvac_systems, vendor, now>>
        /\ UNCHANGED <<integration, singletonVars, writerVars>>

\* ---------------------------- set_system_temperature, set_system_operation_mode

\* A faulty variant of SetCommand: the setter also refreshes the store with a
\* snapshot of the device.
SetCommandRefreshing(name, system_id, value, command_ok) ==
    /\ hvac_systems' = _cache_system_data(hvac_systems, FetchSystems(Some(system_id)),
                                          now, TRUE)
    /\ ret' = TRUE
    /\ issued' = <<>>
    /\ lastOp' = Op(name, Some(system_id), <<value>>, "mock", TRUE)
    /\ repeat' = "no"
    /\ raised' = FALSE
    /\ UNCHANGED <<environ, use_mock_data, thermia, historical_data, vendor, now>>
    /\ UNCHANGED <<integration, singletonVars, writerVars>>

\* The body shared by the two setters: in synthetic mode the command is logged and
\* True returned without a look at system_id; otherwise the heat pump is searched in
\* a fresh fetch and the vendor's setter called on it.  command_ok is whether that
\* setter returns rather than raises; what it does to the device is the vendor's.
SetCommand(name, system_id, value, command_ok) ==
    LET mock == use_mock_data \/ thermia = None
        fetch_raises == ~mock /\ ~vendor.up
        heat_pump == FindHeatPump(vendor.heat_pumps, system_id)
        sent == ~mock /\ vendor.up /\ heat_pump # None
        raised_in_try == fetch_raises \/ (sent /\ ~command_ok)
    IN  /\ ret' = IF mock THEN TRUE
                  ELSE IF raised_in_try THEN FALSE
                  ELSE heat_pump # None
        /\ issued' = IF sent
                     THEN << [ command |-> name, id |-> system_id, value |-> value ] >>
                     ELSE <<>>
        /\ lastOp' = Op(name, Some(system_id), <<value>>,
                        IF mock THEN "mock" ELSE "live", ~raised_in_try)
        /\ repeat' = "no"
        /\ raised' = TryExcept(raised_in_try, FALSE)
        /\ UNCHANGED <<environ, use_mock_data, thermia, hvac_systems, historical_data,
                       vendor, now>>
        /\ UNCHANGED <<integration, singletonVars, writerVars>>

set_system_temperature(system_id, temperature, command_ok) ==
    SetCommand("set_system_temperature", system_id, temperature, command_ok)

set_system_operation_mode(system_id, mode, command_ok) ==
    SetCommand("set_system_operation_mode", system_id, mode, command_ok)

\* ------------------------------------------------- get_system_diagnosis

Abs(x) == IF x < 0 THEN -x ELSE x

When(cond, items) == IF cond THEN items ELSE <<>>

\* "Compressor Running" in system.running_operational_statuses
CompressorRunning(system) ==
    \E k \in 1..Len(system.running_operational_statuses) :
        system.running_operational_statuses[k] = "Compressor Running"

\* A faulty variant of the alarm check: it fires for a single alarm only.
AlarmCheckSingle(system) == Len(system.active_alarms) = 1

\* if system.active_alarms:
AlarmCheck(system) == system.active_alarms # <<>>

\* if system.indoor_temperature and system.heat_temperature: ... if temp_diff > 3
DeviationCheck(system) ==
    /\ TruthyNum(system.indoor_temperature)
    /\ TruthyNum(system.heat_temperature)
    /\ Abs(system.indoor_temperature[1] - system.heat_temperature[1]) > 30

\* if system.running_operational_statuses: ... else: "Compressor not running"
CompressorCheck(system) ==
    system.running_operational_statuses # <<>> /\ ~CompressorRunning(system)

\* The status left by the alarm check and then by the issue count.
ManagerStatus(system, issues) ==
    IF Len(issues) > 2 THEN "POOR"
    ELSE IF Len(issues) > 0 THEN "FAIR"
    ELSE IF AlarmCheck(system) THEN "POOR" ELSE "GOOD"

\* The diagnosis dict built for a found device (lines 487-524).
ManagerDiagnosis(system_id, system, timestamp) ==
    LET issues ==
            When(AlarmCheck(system), system.active_alarms)
            \o When(DeviationCheck(system), <<"Temperature setpoint deviation">>)
            \o When(CompressorCheck(system), <<"Compressor not running">>)
        recommendations ==
            When(DeviationCheck(system),
                 <<"Adjust temperature setpoint for better efficiency">>)
            \o When(system.running_operational_statuses # <<>>
                    /\ CompressorRunning(system), <<"System operating normally">>)
        efficiency_score ==
            85 - (IF AlarmCheck(system) THEN 20 ELSE 0)
               - (IF DeviationCheck(system) THEN 10 ELSE 0)
               - (IF CompressorCheck(system) THEN 15 ELSE 0)
    IN  [ system_id |-> system_id, timestamp |-> timestamp,
          status |-> ManagerStatus(system, issues), issues |-> issues,
          recommendations |-> recommendations,
          efficiency_score |-> efficiency_score ]

\* A faulty variant of get_system_diagnosis: the score of a found device is written
\* to the historical table as one more point.
GetSystemDiagnosisStoring(system_id, write_ok) ==
    LET systems == FetchSystems(Some(system_id))
        diagnosis == ManagerDiagnosis(system_id, systems[1], now)
    IN  /\ hvac_systems' = _cache_system_data(hvac_systems, systems, now, write_ok)
        /\ historical_data' =
              IF systems = <<>> THEN historical_data
              ELSE InsertOrReplaceHistorical(historical_data, system_id,
                       "efficiency_score",
                       [ value |-> diagnosis.efficiency_score, time |-> now ])
        /\ ret' = IF systems = <<>> THEN [ error |-> "System not found" ]
                  ELSE diagnosis
        /\ lastOp' = Op("get_system_diagnosis", Some(system_id), systems,
                        GatewayUsed, write_ok)
        /\ repeat' = "no"
        /\ raised' = FALSE
        /\ issued' = <<>>
        /\ UNCHANGED <<environ, use_mock_data, thermia, vendor, now>>
        /\ UNCHANGED <<integration, singletonVars, writerVars>>

\* get_system_diagnosis: the snapshot comes from get_live_system_data(system_id),
\* store write included; an unknown id is answered with an error dict.
get_system_diagnosis(system_id, write_ok) ==
    LET systems == FetchSystems(Some(system_id))
    IN  /\ hvac_systems' = _cache_system_data(hvac_systems, systems, now, write_ok)
        /\ ret' = IF systems = <<>> THEN [ error |-> "System not found" ]
                  ELSE ManagerDiagnosis(system_id, systems[1], now)
        /\ lastOp' = Op("get_system_diagnosis", Some(system_id), systems,
                        GatewayUsed, write_ok)
        /\ repeat' = "no"
        /\ raised' = TryExcept(
                         TryExcept(GatewayUsed = "fallback" \/ CacheRaises(write_ok),
                                   CacheRaises(write_ok)), FALSE)
        /\ issued' = <<>>
        /\ UNCHANGED <<environ, use_mock_data, thermia, historical_data, vendor, now>>
        /\ UNCHANGED <<integration, singletonVars, writerVars>>

\* ------------------------------------------- get_optimization_suggestions

\* The rules of lines 540-560, in the order they are evaluated.
ManagerSuggestions(system) ==
    LET indoor == system.indoor_temperature
        heat == system.heat_temperature
        outdoor == system.outdoor_temperature
        hours == system.compressor_operational_time
        both == TruthyNum(indoor) /\ TruthyNum(heat)
    IN  When(both /\ indoor[1] - heat[1] > 20,
             <<"Consider lowering the heat temperature setpoint for better efficiency">>)
        \o When(both /\ ~(indoor[1] - heat[1] > 20) /\ indoor[1] - heat[1] < -10,
                <<"Consider raising the heat temperature setpoint for comfort">>)
        \o When(system.operation_mode = "Heating" /\ TruthyNum(outdoor)
                /\ outdoor[1] > 100,
                <<"Consider switching to Auto mode for better efficiency in mild weather">>)
        \o When(TruthyNum(hours) /\ hours[1] > 10000,
                <<"Schedule preventive maintenance - compressor has high operational hours">>)
        \o When(TruthyNum(indoor) /\ TruthyNum(outdoor) /\ indoor[1] - outdoor[1] > 250,
                <<"Large temperature difference detected - consider insulation improvements">>)

\* A faulty variant of get_optimization_suggestions: the list of fired rules is
\* returned as it is, without the message for the case that no rule fired.
GetOptimizationSuggestionsBare(system_id, write_ok) ==
    LET systems == FetchSystems(Some(system_id))
    IN  /\ hvac_systems' = _cache_system_data(hvac_systems, systems, now, write_ok)
        /\ ret' = IF systems = <<>> THEN <<"System not found">>
                  ELSE ManagerSuggestions(systems[1])
        /\ lastOp' = Op("get_optimization_suggestions", Some(system_id), systems,
                        GatewayUsed, write_ok)
        /\ repeat' = "no"
        /\ raised' = FALSE
        /\ issued' = <<>>
        /\ UNCHANGED <<environ, use_mock_data, thermia, historical_data, vendor, now>>
        /\ UNCHANGED <<integration, singletonVars, writerVars>>

get_optimization_suggestions(system_id, write_ok) ==
    LET systems == FetchSystems(Some(system_id))
        suggestions == ManagerSuggestions(systems[1])
    IN  /\ hvac_systems' = _cache_system_data(hvac_systems, systems, now, write_ok)
        /\ ret' = IF systems = <<>> THEN <<"System not found">>
                  ELSE IF suggestions # <<>> THEN suggestions
                  ELSE <<"System is operating optimally">>
        /\ lastOp' = Op("get_optimization_suggestions", Some(system_id), systems,
                        GatewayUsed, write_ok)
        /\ repeat' = "no"
        /\ raised' = TryExcept(
                         TryExcept(GatewayUsed = "fallback" \/ CacheRaises(write_ok),
                                   CacheRaises(write_ok)), FALSE)
        /\ issued' = <<>>
        /\ UNCHANGED <<environ, use_mock_data, thermia, historical_data, vendor, now>>
        /\ UNCHANGED <<integration, singletonVars, writerVars>>

\* ------------------------------------------------------- the environment

\* The vendor's service goes down or comes back, or its devices change.
VendorChange ==
    /\ thermia # None
    /\ \E v \in [ up : BOOLEAN, heat_pumps : VendorLists ] :
          /\ v # vendor
          /\ vendor' = v
    /\ lastOp' = Op("vendor", None, <<>>, "none", TRUE)
    /\ ret' = <<>>
    /\ repeat' = "no"
    /\ raised' = FALSE
    /\ issued' = <<>>
    /\ UNCHANGED <<environ, use_mock_data, thermia, hvac_systems, historical_data, now>>
    /\ UNCHANGED <<integration, singletonVars, writerVars>>

\* A second passes on the store's clock; no operation runs.
Tick ==
    /\ now < MaxClock
    /\ now' = now + 1
    /\ UNCHANGED <<environ, use_mock_data, thermia, hvac_systems, historical_data,
                   vendor, lastOp, ret, repeat, raised, issued>>
    /\ UNCHANGED <<integration, singletonVars, writerVars>>

GetLive == \E system_id \in SystemIdArgs, write_ok \in BOOLEAN :
              get_live_system_data(system_id, write_ok)

GetCached == \E system_id \in SystemIdArgs, read_ok \in BOOLEAN :
                get_cached_system_data(system_id, read_ok)

\* The system_id arguments followed for get_historical_data: each is a device of one
\* gateway and unknown to the other.
HistoricalIds == { "mock-system-1", "hp-1" }

\* The vendor's part in a call is drawn only when the call reaches the vendor.
GetHistorical ==
    \E system_id \in HistoricalIds, register_name \in RegisterNames,
       start_time \in Hours, end_time \in Hours, write_ok \in BOOLEAN :
       LET asked == GatewayUsed = "live"
                    /\ FindHeatPump(vendor.heat_pumps, system_id) # None
       IN  \E register_ok \in (IF asked THEN BOOLEAN ELSE { TRUE }) :
           \E answer \in (IF asked /\ register_ok
                          THEN VendorHistory(start_time, end_time) ELSE { <<>> }) :
              get_historical_data(system_id, register_name, start_time, end_time,
                                  answer, register_ok, write_ok)

\* The system_id arguments followed for the setters, the diagnosis and the
\* suggestions: a synthetic device, a vendor device and an id no gateway knows.
OperationIds == { "mock-system-1", "hp-1", "invalid-id" }

SetTemperature ==
    \E system_id \in OperationIds, command_ok \in BOOLEAN :
       set_system_temperature(system_id, 225, command_ok)

SetOperationMode ==
    \E system_id \in OperationIds, command_ok \in BOOLEAN :
       set_system_operation_mode(system_id, "Auto", command_ok)

GetDiagnosis ==
    \E system_id \in OperationIds, write_ok \in BOOLEAN :
       get_system_diagnosis(system_id, write_ok)

GetSuggestions ==
    \E system_id \in OperationIds, write_ok \in BOOLEAN :
       get_optimization_suggestions(system_id, write_ok)

\* The snapshot operations, with the store's clock and the vendor moving.
Next == GetLive \/ GetCached \/ VendorChange \/ Tick

Spec == Init /\ [][Next]_vars

\* The historical operations, with the vendor moving.
NextHist == GetHistorical \/ GetCached \/ VendorChange

\* Two environments are followed there: the default one (synthetic mode) and one with
\* the flag off and both credentials (live mode, or synthetic when the login fails).
InitHist ==
    /\ Init
    /\ environ.THERMIA_USERNAME # None
    /\ environ.THERMIA_PASSWORD # None

SpecHist == InitHist /\ [][NextHist]_vars

\* get_historical_data next to the other operations: one hour is asked for, over a
\* historical table that is still empty.
GetHistoricalPoint ==
    \E system_id \in HistoricalIds, register_name \in RegisterNames,
       write_ok \in BOOLEAN :
       LET asked == GatewayUsed = "live"
                    /\ FindHeatPump(vendor.heat_pumps, system_id) # None
       IN  \E register_ok \in (IF asked THEN BOOLEAN ELSE { TRUE }) :
           \E answer \in (IF asked /\ register_ok
                          THEN VendorHistory(FirstHour, FirstHour) ELSE { <<>> }) :
              /\ historical_data = {}
              /\ get_historical_data(system_id, register_name, FirstHour, FirstHour,
                                     answer, register_ok, write_ok)

\* Every public operation of the manager, with the vendor moving.
NextOps ==
    \/ GetLive
    \/ GetCached
    \/ GetHistoricalPoint
    \/ SetTemperature
    \/ SetOperationMode
    \/ GetDiagnosis
    \/ GetSuggestions
    \/ VendorChange

\* The manager is followed from a fresh store there.
InitOps == Init /\ hvac_systems = {} /\ historical_data = {}

SpecOps == InitOps /\ [][NextOps]_vars

\* ------------------------------------------------ ThermiaHVACIntegration
\* (src/scripts/thermia_integration.py): a second gateway object with its own
\* connection and its own synthetic devices; integration is None until it is
\* constructed and then <<[thermia, heat_pumps]>>.

\* Everything the integration's methods leave alone.
outsideIntegration ==
    <<environ, use_mock_data, thermia, hvac_systems, historical_data, vendor, now,
      repeat, singletonVars, writerVars>>

\* HVACSystemData of thermia_integration.py, built from a heat pump's attributes.
PumpToHVACSystemData(pump) ==
    [ name |-> pump.name, id |-> pump.id, model |-> pump.model,
      is_online |-> pump.is_online,
      indoor_temperature |-> pump.indoor_temperature,
      outdoor_temperature |-> pump.outdoor_temperature,
      hot_water_temperature |-> pump.hot_water_temperature,
      heat_temperature |-> pump.heat_temperature,
      supply_line_temperature |-> pump.supply_line_temperature,
      return_line_temperature |-> pump.return_line_temperature,
      operation_mode |-> pump.operation_mode,
      active_alarms |-> pump.active_alarms,
      compressor_operational_time |-> pump.compressor_operational_time,
      last_online |-> pump.last_online ]

_get_mock_heat_pumps ==
    << [ name |-> "Test Heat Pump 1", id |-> "mock-001",
         model |-> "Thermia Diplomat Duo", is_online |-> TRUE,
         indoor_temperature |-> Some(225), outdoor_temperature |-> Some(52),
         hot_water_temperature |-> Some(450), heat_temperature |-> Some(210),
         supply_line_temperature |-> Some(350),
         return_line_temperature |-> Some(300),
         operation_mode |-> "Heating", active_alarms |-> <<>>,
         compressor_operational_time |-> Some(12505),
         last_online |-> Some("2024-01-15T10:30:00Z") ],
       [ name |-> "Test Heat Pump 2", id |-> "mock-002",
         model |-> "Thermia Calibra", is_online |-> FALSE,
         indoor_temperature |-> None, outdoor_temperature |-> None,
         hot_water_temperature |-> None, heat_temperature |-> Some(200),
         supply_line_temperature |-> None, return_line_temperature |-> None,
         operation_mode |-> "Standby",
         active_alarms |-> <<"Communication Error">>,
         compressor_operational_time |-> Some(8902),
         last_online |-> Some("2024-01-15T08:15:00Z") ] >>

\* __init__ and _initialize_connection: without both credentials, or when the login
\* raises, thermia stays None; heat_pumps starts empty.
_initialize_connection(login_ok) ==
    /\ integration = None
    /\ integration' =
          Some([ thermia |-> IF CredentialsMissing(environ) \/ ~login_ok
                             THEN None ELSE Some("Thermia"),
                 heat_pumps |-> <<>> ])
    /\ lastOp' = Op("ThermiaHVACIntegration", None, <<>>, "none", TRUE)
    /\ ret' = <<>>
    /\ raised' = FALSE
    /\ issued' = <<>>
    /\ UNCHANGED outsideIntegration

\* Which gateway a fetch of the integration ends up using.
IntegrationGateway ==
    IF integration[1].thermia = None THEN "mock"
    ELSE IF vendor.up THEN "live" ELSE "fallback"

\* What fetch_heat_pumps returns, and the heat_pumps it leaves on the object: the
\* vendor's list is kept only when the vendor answers.
FetchedSystems ==
    IF IntegrationGateway = "live"
    THEN [ k \in 1..Len(vendor.heat_pumps) |->
             PumpToHVACSystemData(vendor.heat_pumps[k]) ]
    ELSE _get_mock_heat_pumps

FetchedHeatPumps ==
    IF IntegrationGateway = "live" THEN vendor.heat_pumps
    ELSE integration[1].heat_pumps

fetch_heat_pumps ==
    /\ integration # None
    /\ integration' = Some([ integration[1] EXCEPT !.heat_pumps = FetchedHeatPumps ])
    /\ ret' = FetchedSystems
    /\ lastOp' = Op("fetch_heat_pumps", None, <<>>, IntegrationGateway, TRUE)
    /\ raised' = TryExcept(IntegrationGateway = "fallback", FALSE)
    /\ issued' = <<>>
    /\ UNCHANGED outsideIntegration

\* get_system_by_id: the first fetched system with that id, as an Optional.
get_system_by_id(system_id) ==
    LET hits == SelectSeq(FetchedSystems, LAMBDA system : system.id = system_id)
    IN  IF hits = <<>> THEN None ELSE Some(Head(hits))

\* The body shared by set_temperature and set_operation_mode: without a connection
\* True is returned at once; otherwise the pump is searched in self.heat_pumps, the
\* list the last fetch_heat_pumps left on the object.
IntegrationSet(name, system_id, value, command_ok) ==
    LET connected == integration[1].thermia # None
        pump == FindHeatPump(integration[1].heat_pumps, system_id)
        sent == connected /\ pump # None
    IN  /\ integration # None
        /\ ret' = IF ~connected THEN TRUE ELSE (sent /\ command_ok)
        /\ issued' = IF sent
                     THEN << [ command |-> name, id |-> system_id, value |-> value ] >>
                     ELSE <<>>
        /\ lastOp' = Op(name, Some(system_id), <<value>>,
                        IF connected THEN "live" ELSE "mock", ~(sent /\ ~command_ok))
        /\ raised' = TryExcept(sent /\ ~command_ok, FALSE)
        /\ UNCHANGED <<integration, outsideIntegration>>

set_temperature(system_id, temperature, command_ok) ==
    IntegrationSet("set_temperature", system_id, temperature, command_ok)

set_operation_mode(system_id, mode, command_ok) ==
    IntegrationSet("set_operation_mode", system_id, mode, command_ok)

\* if system.indoor_temperature and system.outdoor_temperature: ... temp_diff < 10
LowDifferential(system) ==
    /\ TruthyNum(system.indoor_temperature)
    /\ TruthyNum(system.outdoor_temperature)
    /\ system.indoor_temperature[1] - system.outdoor_temperature[1] < 100

\* if system.hot_water_temperature: if ... < 40 / elif ... > 60
LowHotWater(system) ==
    TruthyNum(system.hot_water_temperature) /\ system.hot_water_temperature[1] < 400

HighHotWater(system) ==
    TruthyNum(system.hot_water_temperature) /\ system.hot_water_temperature[1] > 600

\* The thresholds of diagnose_system (lines 266-273).
IntegrationStatus(efficiency_score) ==
    IF efficiency_score >= 90 THEN "EXCELLENT"
    ELSE IF efficiency_score >= 70 THEN "GOOD"
    ELSE IF efficiency_score >= 50 THEN "FAIR"
    ELSE "POOR"

\* A faulty variant of the integration's scoring: the alarm penalty is taken once
\* per active alarm.
IntegrationDiagnosisPerAlarm(system_id, system, timestamp) ==
    LET efficiency_score ==
            100 - (IF ~system.is_online THEN 30 ELSE 0)
                - (IF LowDifferential(system) THEN 15 ELSE 0)
                - 25 * Len(system.active_alarms)
                - (IF LowHotWater(system) THEN 10 ELSE 0)
                - (IF HighHotWater(system) THEN 5 ELSE 0)
    IN  [ system_id |-> system_id, timestamp |-> timestamp,
          status |-> IntegrationStatus(efficiency_score),
          issues |-> When(~system.is_online, <<"System is offline">>)
                     \o system.active_alarms,
          recommendations |-> <<>>,
          efficiency_score |-> Some(efficiency_score) ]

\* The DiagnosticResult of a found system (lines 230-282).
IntegrationDiagnosis(system_id, system, timestamp) ==
    LET issues ==
            When(~system.is_online, <<"System is offline">>)
            \o When(LowDifferential(system), <<"Low temperature differential">>)
            \o system.active_alarms
            \o When(LowHotWater(system), <<"Low hot water temperature">>)
            \o When(HighHotWater(system), <<"High hot water temperature">>)
        recommendations ==
            When(~system.is_online, <<"Check network connection and power supply">>)
            \o When(LowDifferential(system),
                    <<"Check system efficiency and insulation">>)
            \o When(system.active_alarms # <<>>,
                    <<"Address active alarms immediately">>)
            \o When(LowHotWater(system),
                    <<"Check hot water settings and efficiency">>)
            \o When(HighHotWater(system),
                    <<"Consider lowering hot water temperature for efficiency">>)
        efficiency_score ==
            100 - (IF ~system.is_online THEN 30 ELSE 0)
                - (IF LowDifferential(system) THEN 15 ELSE 0)
                - (IF system.active_alarms # <<>> THEN 25 ELSE 0)
                - (IF LowHotWater(system) THEN 10 ELSE 0)
                - (IF HighHotWater(system) THEN 5 ELSE 0)
    IN  [ system_id |-> system_id, timestamp |-> timestamp,
          status |-> IntegrationStatus(efficiency_score), issues |-> issues,
          recommendations |-> recommendations,
          efficiency_score |-> Some(efficiency_score) ]

\* diagnose_system: the system comes from get_system_by_id, which fetches (and so
\* renews self.heat_pumps); an id it does not find is answered with status ERROR.
diagnose_system(system_id) ==
    LET system == get_system_by_id(system_id)
    IN  /\ integration # None
        /\ integration' =
              Some([ integration[1] EXCEPT !.heat_pumps = FetchedHeatPumps ])
        /\ ret' = IF system = None
                  THEN [ system_id |-> system_id, timestamp |-> now,
                         status |-> "ERROR", issues |-> <<"System not found">>,
                         recommendations |-> <<"Check system ID">>,
                         efficiency_score |-> None ]
                  ELSE IntegrationDiagnosis(system_id, system[1], now)
        /\ lastOp' = Op("diagnose_system", Some(system_id), system,
                        IntegrationGateway, TRUE)
        /\ raised' = TryExcept(IntegrationGateway = "fallback", FALSE)
        /\ issued' = <<>>
        /\ UNCHANGED outsideIntegration

\* The rules of lines 292-313, then the four general tips.
IntegrationSuggestions(system) ==
    When(/\ TruthyNum(system.indoor_temperature)
         /\ TruthyNum(system.heat_temperature)
         /\ system.indoor_temperature[1] > system.heat_temperature[1] + 20,
         <<"Consider lowering indoor temperature for energy savings">>)
    \o When(/\ TruthyNum(system.hot_water_temperature)
            /\ system.hot_water_temperature[1] > 550,
            <<"Consider lowering hot water temperature to 45-50C for efficiency">>)
    \o When(/\ TruthyNum(system.compressor_operational_time)
            /\ system.compressor_operational_time[1] > 10000,
            <<"Schedule maintenance check due to high operational hours">>)
    \o << "Ensure proper insulation around the building",
          "Check and clean air filters regularly",
          "Monitor system performance trends",
          "Consider smart thermostat integration" >>

ThermiaHVACIntegration_get_optimization_suggestions(system_id) ==
    LET system == get_system_by_id(system_id)
    IN  /\ integration # None
        /\ integration' =
              Some([ integration[1] EXCEPT !.heat_pumps = FetchedHeatPumps ])
        /\ ret' = IF system = None THEN <<"System not found">>
                  ELSE IntegrationSuggestions(system[1])
        /\ lastOp' = Op("ThermiaHVACIntegration.get_optimization_suggestions",
                        Some(system_id), system, IntegrationGateway, TRUE)
        /\ raised' = TryExcept(IntegrationGateway = "fallback", FALSE)
        /\ issued' = <<>>
        /\ UNCHANGED outsideIntegration

\* The system_id arguments followed for the integration: a synthetic device, a
\* vendor device and an id no gateway knows.
IntegrationIds == { "mock-001", "hp-1", "invalid-id" }

\* Heat pumps covering the field combinations diagnose_system looks at.
IntegrationPumps ==
    { [ HeatPump("hp-1", online, indoor, Some(210), alarms, <<>>)
          EXCEPT !.outdoor_temperature = outdoor, !.hot_water_temperature = water ] :
        online \in BOOLEAN,
        indoor \in { None, Some(215) },
        alarms \in { <<>>, <<"Communication Error">> },
        outdoor \in { None, Some(0), Some(121) },
        water \in { None, Some(350), Some(500), Some(650) } }

NextIntegration ==
    \/ \E login_ok \in BOOLEAN : _initialize_connection(login_ok)
    \/ fetch_heat_pumps
    \/ \E system_id \in IntegrationIds, command_ok \in BOOLEAN :
          set_temperature(system_id, 225, command_ok)
    \/ \E system_id \in IntegrationIds, command_ok \in BOOLEAN :
          set_operation_mode(system_id, "Heating", command_ok)
    \/ \E system_id \in IntegrationIds : diagnose_system(system_id)
    \/ \E system_id \in IntegrationIds :
          ThermiaHVACIntegration_get_optimization_suggestions(system_id)

\* ----------------------------------------------- get_ai_system_instance

\* Everything but the accessor's own variables.
managerVars ==
    <<environ, use_mock_data, thermia, hvac_systems, historical_data, vendor, now,
      lastOp, ret, repeat, raised, issued, integration, writerVars>>

\* if _ai_system is None: -- the caller reads the global and takes a branch.  Request
\* threads run the accessor concurrently and nothing orders this read with another
\* caller's assignment.
TestIsNone(c) ==
    /\ pc[c] = "idle"
    /\ pc' = [ pc EXCEPT ![c] = IF _ai_system = None THEN "construct" ELSE "return" ]
    /\ UNCHANGED <<_ai_system, built, got, managerVars>>

\* _ai_system = AIRAGChat(), or _ai_system = None when the constructor raises.  Each
\* AIRAGChat builds its own DataIntegrationManager (get_data_integration_manager
\* returns a new one on every call).
Construct(c, construct_ok) ==
    /\ pc[c] = "construct"
    /\ built' = IF construct_ok THEN built + 1 ELSE built
    /\ _ai_system' = IF construct_ok THEN Some(built + 1) ELSE None
    /\ pc' = [ pc EXCEPT ![c] = "return" ]
    /\ UNCHANGED <<got, managerVars>>

\* return _ai_system
Return(c) ==
    /\ pc[c] = "return"
    /\ got' = [ got EXCEPT ![c] = _ai_system ]
    /\ pc' = [ pc EXCEPT ![c] = "done" ]
    /\ UNCHANGED <<_ai_system, built, managerVars>>

NextSingleton ==
    \E c \in Callers :
       \/ TestIsNone(c)
       \/ \E construct_ok \in BOOLEAN : Construct(c, construct_ok)
       \/ Return(c)

\* The accessor is followed in a process started with the default environment.
InitSingleton ==
    /\ InitOps
    /\ environ = [ USE_MOCK_DATA |-> None, THERMIA_USERNAME |-> None,
                   THERMIA_PASSWORD |-> None ]

SpecSingleton == InitSingleton /\ [][NextSingleton]_vars

\* ------------------------------------------- diagnosis over many snapshots

\* Heat pumps covering the field combinations the diagnosis looks at.
DiagnosisPumps ==
    { HeatPump("hp-1", online, indoor, heat, alarms, statuses) :
        online \in BOOLEAN,
        indoor \in { None, Some(0), Some(215), Some(250) },
        heat \in { None, Some(210) },
        alarms \in { <<>>, <<"Communication Error">>,
                     <<"High pressure", "Low flow", "Sensor fault">> },
        statuses \in { <<>>, <<"Compressor Running">>, <<"Standby">> } }

\* A manager in synthetic mode (default environment) or in live mode over a vendor
\* that lists one of these heat pumps, with a fresh store.
InitDiagnosis ==
    /\ environ \in { e \in Environments :
                       /\ e.THERMIA_USERNAME # None
                       /\ e.THERMIA_PASSWORD # None }
    /\ use_mock_data = InitUseMockData(environ, TRUE)
    /\ thermia = InitThermia(environ, TRUE)
    /\ hvac_systems = {}
    /\ historical_data = {}
    /\ \E heat_pump \in DiagnosisPumps :
          vendor = [ up |-> TRUE, heat_pumps |-> <<heat_pump>> ]
    /\ now = 1
    /\ lastOp = Op("__init__", None, <<>>, "none", TRUE)
    /\ ret = <<>>
    /\ repeat = "no"
    /\ raised = FALSE
    /\ issued = <<>>
    /\ integration = None
    /\ pc = [ c \in Callers |-> "idle" ]
    /\ _ai_system = None
    /\ built = 0
    /\ got = [ c \in Callers |-> None ]
    /\ txn = [ w \in Writers |-> IdleTxn ]
    /\ db_lock = None

\* The integration is followed from the same initial states over its own heat pumps.
InitIntegration ==
    /\ environ \in { e \in Environments : e.USE_MOCK_DATA = None
                                           /\ e.THERMIA_USERNAME # None }
    /\ use_mock_data = InitUseMockData(environ, TRUE)
    /\ thermia = InitThermia(environ, TRUE)
    /\ hvac_systems = {}
    /\ historical_data = {}
    /\ \E heat_pump \in IntegrationPumps :
          vendor = [ up |-> TRUE, heat_pumps |-> <<heat_pump>> ]
    /\ now = 1
    /\ lastOp = Op("__init__", None, <<>>, "none", TRUE)
    /\ ret = <<>>
    /\ repeat = "no"
    /\ raised = FALSE
    /\ issued = <<>>
    /\ integration = None
    /\ pc = [ c \in Callers |-> "idle" ]
    /\ _ai_system = None
    /\ built = 0
    /\ got = [ c \in Callers |-> None ]
    /\ txn = [ w \in Writers |-> IdleTxn ]
    /\ db_lock = None

SpecIntegration == InitIntegration /\ [][NextIntegration]_vars

NextDiagnosis == GetDiagnosis \/ GetSuggestions

SpecDiagnosis == InitDiagnosis /\ [][NextDiagnosis]_vars

\* ------------------------- both diagnoses and both suggestion lists together

\* The manager and the integration are followed side by side over a vendor that
\* lists one heat pump out of either family.
InitDiagnoses ==
    /\ environ \in { e \in Environments :
                       /\ e.THERMIA_USERNAME # None
                       /\ e.THERMIA_PASSWORD # None }
    /\ use_mock_data = InitUseMockData(environ, TRUE)
    /\ thermia = InitThermia(environ, TRUE)
    /\ hvac_systems = {}
    /\ historical_data = {}
    /\ \E heat_pump \in DiagnosisPumps \cup IntegrationPumps :
          vendor = [ up |-> TRUE, heat_pumps |-> <<heat_pump>> ]
    /\ now = 1
    /\ lastOp = Op("__init__", None, <<>>, "none", TRUE)
    /\ ret = <<>>
    /\ repeat = "no"
    /\ raised = FALSE
    /\ issued = <<>>
    /\ integration = None
    /\ pc = [ c \in Callers |-> "idle" ]
    /\ _ai_system = None
    /\ built = 0
    /\ got = [ c \in Callers |-> None ]
    /\ txn = [ w \in Writers |-> IdleTxn ]
    /\ db_lock = None

Connect == \E login_ok \in BOOLEAN : _initialize_connection(login_ok)

Diagnose == \E system_id \in IntegrationIds : diagnose_system(system_id)

Suggest ==
    \E system_id \in IntegrationIds :
       ThermiaHVACIntegration_get_optimization_suggestions(system_id)

NextDiagnoses == GetDiagnosis \/ GetSuggestions \/ Connect \/ Diagnose \/ Suggest

SpecDiagnoses == InitDiagnoses /\ [][NextDiagnoses]_vars

\* ------------------------------------ a vendor that raises on every call

\* What an earlier run left in the store: one snapshot of a device "mock-001",
\* online, indoor temperature 22.5.
PriorSnapshot ==
    _cache_system_data({}, << [ MockSystem1 EXCEPT !.id = "mock-001" ] >>, 0, TRUE)

\* The system_id arguments followed there: no id, the stored device, a device of
\* the manager's synthetic data.
FallbackIdArgs == { None, Some("mock-001"), Some("mock-system-1") }

\* A manager in live mode over that store; thermia.fetch_heat_pumps raises.
InitFallback ==
    /\ environ \in { e \in Environments :
                       /\ e.THERMIA_USERNAME # None
                       /\ e.THERMIA_PASSWORD # None }
    /\ use_mock_data = InitUseMockData(environ, TRUE)
    /\ thermia = InitThermia(environ, TRUE)
    /\ hvac_systems = PriorSnapshot
    /\ historical_data = {}
    /\ \E heat_pumps \in VendorLists : vendor = [ up |-> FALSE, heat_pumps |-> heat_pumps ]
    /\ now = 1
    /\ lastOp = Op("__init__", None, <<>>, "none", TRUE)
    /\ ret = <<>>
    /\ repeat = "no"
    /\ raised = FALSE
    /\ issued = <<>>
    /\ integration = None
    /\ pc = [ c \in Callers |-> "idle" ]
    /\ _ai_system = None
    /\ built = 0
    /\ got = [ c \in Callers |-> None ]
    /\ txn = [ w \in Writers |-> IdleTxn ]
    /\ db_lock = None

GetLiveFallback ==
    \E system_id \in FallbackIdArgs, write_ok \in BOOLEAN :
       get_live_system_data(system_id, write_ok)

GetCachedFallback ==
    \E system_id \in FallbackIdArgs, read_ok \in BOOLEAN :
       get_cached_system_data(system_id, read_ok)

NextFallback == GetLiveFallback \/ GetCachedFallback \/ Tick

SpecFallback == InitFallback /\ [][NextFallback]_vars

\* ------------------------------------------- concurrent writers of the store
\* Request threads call get_live_system_data at the same time.  Each call opens its
\* own connection in _cache_system_data (sqlite3.connect with the default timeout),
\* runs one INSERT OR REPLACE per record inside one transaction and commits; SQLite
\* gives the file's write lock to one connection at a time.

\* Everything the writers' steps leave alone while a call is under way.
outsideWriters ==
    <<environ, use_mock_data, thermia, historical_data, vendor, now, repeat, issued,
      integration, singletonVars>>

\* The call fetches its list and opens its connection (lines 164-169, 270-271).
Open(w, system_id) ==
    /\ txn[w].pc = "idle"
    /\ txn' = [ txn EXCEPT ![w] = [ pc |-> "open", system_id |-> system_id,
                                    batch |-> FetchSystems(system_id), written |-> 0 ] ]
    /\ UNCHANGED <<hvac_systems, db_lock, lastOp, ret, raised, outsideWriters>>

\* cursor.execute(INSERT OR REPLACE ...) for the next record: the first write of the
\* transaction takes the write lock, and the row stays uncommitted.  While another
\* connection holds the lock the statement waits.
Execute(w) ==
    /\ txn[w].pc = "open"
    /\ txn[w].written < Len(txn[w].batch)
    /\ db_lock \in { None, Some(w) }
    /\ db_lock' = Some(w)
    /\ txn' = [ txn EXCEPT ![w].written = @ + 1 ]
    /\ UNCHANGED <<hvac_systems, lastOp, ret, raised, outsideWriters>>

\* The statement does not get the lock (the wait ends after the connection's
\* timeout, or SQLite refuses to wait): sqlite3.OperationalError "database is
\* locked" is raised, the except branch logs it and get_live_system_data returns its
\* list (lines 299-300, 172).
Locked(w) ==
    /\ txn[w].pc = "open"
    /\ txn[w].written < Len(txn[w].batch)
    /\ db_lock \notin { None, Some(w) }
    /\ txn' = [ txn EXCEPT ![w].pc = "returned" ]
    /\ ret' = txn[w].batch
    /\ lastOp' = Op("get_live_system_data", txn[w].system_id, <<>>, GatewayUsed, FALSE)
    /\ raised' = TryExcept(TRUE, FALSE)
    /\ UNCHANGED <<hvac_systems, db_lock, outsideWriters>>

\* conn.commit(): the rows of the batch become the table's rows in one step and the
\* lock is released; then get_live_system_data returns its list (lines 296-297, 172).
Commit(w) ==
    /\ txn[w].pc = "open"
    /\ txn[w].written = Len(txn[w].batch)
    /\ hvac_systems' = CacheRows(hvac_systems, txn[w].batch, now)
    /\ db_lock' = IF db_lock = Some(w) THEN None ELSE db_lock
    /\ txn' = [ txn EXCEPT ![w].pc = "returned" ]
    /\ ret' = txn[w].batch
    /\ lastOp' = Op("get_live_system_data", txn[w].system_id, <<>>, GatewayUsed, TRUE)
    /\ raised' = FALSE
    /\ UNCHANGED outsideWriters

\* The system_id arguments of the concurrent calls: the whole list or one device.
WriterIdArgs == { None, Some("mock-system-1"), Some("mock-system-2") }

NextWriters ==
    \E w \in Writers :
       \/ \E system_id \in WriterIdArgs : Open(w, system_id)
       \/ Execute(w)
       \/ Locked(w)
       \/ Commit(w)

\* The calls are made on a manager over a fresh store.
SpecWriters == InitOps /\ [][NextWriters]_vars

\* ------------------------------------------------------------ the claims

\* The step is a call of the operation named op (a Tick keeps lastOp but moves now).
IsCall(op) == now' = now /\ lastOp'.op = op

\* The store holds a snapshot with s's id whose fields, read back, equal s's.
Persisted(table, s) == \E r \in table : r.id = s.id /\ RowToSystem(r) = s

AllPersisted(table, systems_data) ==
    \A k \in 1..Len(systems_data) : Persisted(table, systems_data[k])

SeqIds(systems_data) == { systems_data[k].id : k \in 1..Len(systems_data) }

RowsOf(table, i) == { r \in table : r.id = i }

\* The device set a fetch through the given gateway queries.
QueriedIds(gateway) ==
    IF gateway = "live" THEN SeqIds(vendor.heat_pumps)
    ELSE { "mock-system-1", "mock-system-2" }

\* C1 as stated: in live mode, when the live fetch raises, get_live_system_data()
\* returns the synthetic gateway's non-empty device list and the store then holds
\* every record of it.
C1_FallbackAlwaysStored ==
    ( /\ lastOp.op = "get_live_system_data"
      /\ lastOp.system_id = None
      /\ lastOp.gateway = "fallback" )
    => /\ ret # <<>>
       /\ ret = <<MockSystem1, MockSystem2>>
       /\ AllPersisted(hvac_systems, ret)

\* C1 as amended: in live mode, when the live fetch raises, get_live_system_data()
\* returns the synthetic gateway's non-empty device list, and the store then holds
\* every record of it provided the store write did not fail.
C1_Fallback ==
    ( /\ lastOp.op = "get_live_system_data"
      /\ lastOp.system_id = None
      /\ lastOp.gateway = "fallback" )
    => /\ ~use_mock_data /\ thermia # None /\ ~vendor.up
       /\ ret # <<>>
       /\ ret = <<MockSystem1, MockSystem2>>
       /\ (lastOp.store_ok => AllPersisted(hvac_systems, ret))

C1_Witness ==
    /\ lastOp.op = "get_live_system_data"
    /\ lastOp.system_id = None
    /\ lastOp.gateway = "fallback"
    /\ lastOp.store_ok
    /\ Len(ret) = 2
    /\ \E r \in hvac_systems : r.id = "mock-system-2" /\ r.updated_at = now

\* C2 as stated: whenever get_live_system_data returns list L, the store holds, for
\* every record of L, a snapshot with its id and its fields.
C2_AlwaysPersisted ==
    lastOp.op = "get_live_system_data" => AllPersisted(hvac_systems, ret)

\* C2 as amended: whenever get_live_system_data returns list L and its store write did
\* not fail, the store holds, for every record of L, a snapshot with its id and its
\* fields.
C2_PersistBeforeReturn ==
    (lastOp.op = "get_live_system_data" /\ lastOp.store_ok)
    => AllPersisted(hvac_systems, ret)

C2_Witness ==
    /\ lastOp.op = "get_live_system_data"
    /\ lastOp.store_ok
    /\ lastOp.gateway = "live"
    /\ Len(ret) = 2
    /\ Persisted(hvac_systems, HeatPumpToSystem(PumpA2))

\* C3: get_live_system_data(system_id=X) leaves every stored snapshot whose id is not X
\* as it was, updated_at included, and adds no snapshot with another id.
C3_OnlyTouchFetched ==
    [][ (IsCall("get_live_system_data") /\ lastOp'.system_id # None)
        => \A i \in SystemIds :
              i # lastOp'.system_id[1]
              => RowsOf(hvac_systems', i) = RowsOf(hvac_systems, i) ]_vars

C3_Witness ==
    /\ lastOp.op = "get_live_system_data"
    /\ lastOp.system_id = Some("hp-1")
    /\ lastOp.store_ok
    /\ \E r \in hvac_systems : r.id = "hp-1" /\ r.updated_at = 2
    /\ \E r \in hvac_systems : r.id = "hp-2" /\ r.updated_at = 1

\* C4: get_live_system_data(system_id=X) returns at most one record, with id X, and
\* returns none exactly when X is not a device of the gateway that was queried.
C4_FilterCorrect ==
    (lastOp.op = "get_live_system_data" /\ lastOp.system_id # None)
    => /\ Len(ret) <= 1
       /\ \A k \in 1..Len(ret) : ret[k].id = lastOp.system_id[1]
       /\ (ret = <<>>) <=> (lastOp.system_id[1] \notin QueriedIds(lastOp.gateway))

C4_Witness ==
    /\ lastOp.op = "get_live_system_data"
    /\ lastOp.system_id = Some("mock-system-1")
    /\ lastOp.gateway = "fallback"
    /\ Len(ret) = 1
    /\ vendor.heat_pumps = <<PumpA2, PumpB>>

\* The list l is a listing of the stored snapshots: all of them, or the one with the
\* given id, each once.
ExactListing(l, table, system_id) ==
    LET want == IF system_id = None THEN StoredSystems(table)
                ELSE StoredSystems(RowsOf(table, system_id[1]))
    IN  /\ { l[k] : k \in 1..Len(l) } = want
        /\ Len(l) = Cardinality(want)

\* What get_cached_system_data leaves alone: both tables, the mode flag, the
\* connection and the vendor.
CachedReadFrame ==
    /\ lastOp'.gateway = "none"
    /\ UNCHANGED <<hvac_systems, historical_data, use_mock_data, thermia, vendor>>

\* C5 as stated: get_cached_system_data calls no gateway, leaves the store and the mode
\* flag unchanged, and returns exactly the stored snapshots (all, or the one with the
\* given id, or none when there is none).
C5_CachedReadExact ==
    [][ IsCall("get_cached_system_data")
        => /\ CachedReadFrame
           /\ ExactListing(ret', hvac_systems, lastOp'.system_id) ]_vars

\* C5 as amended: get_cached_system_data calls no gateway and leaves the store and the
\* mode flag unchanged; it returns exactly the stored snapshots (all, or the one with
\* the given id, or none) when the store read succeeds, and an empty list when the
\* read fails.
C5_CachedRead ==
    [][ IsCall("get_cached_system_data")
        => /\ CachedReadFrame
           /\ IF lastOp'.store_ok
              THEN ExactListing(ret', hvac_systems, lastOp'.system_id)
              ELSE ret' = <<>> ]_vars

C5_Witness ==
    /\ lastOp.op = "get_cached_system_data"
    /\ lastOp.system_id = Some("hp-1")
    /\ lastOp.store_ok
    /\ Len(ret) = 1
    /\ ret[1] = HeatPumpToSystem(PumpA2)
    /\ Cardinality(hvac_systems) = 4
    /\ historical_data # {}

\* Two store states hold the same snapshot records: as many, with the same ids and
\* field values (updated_at aside).
SameRecords(t1, t2) ==
    /\ StoredSystems(t1) = StoredSystems(t2)
    /\ Cardinality(t1) = Cardinality(t2)

\* After a successful upsert, listing the store yields the upserted ids together with
\* the ids stored before.
UpsertThenList ==
    (IsCall("get_live_system_data") /\ lastOp'.store_ok)
    => { x.id : x \in StoredSystems(hvac_systems') }
       = SeqIds(ret') \cup { r.id : r \in hvac_systems }

\* C6 as stated: a get_live_system_data() right after another one, the gateway's data
\* unchanged, leaves the store with the same records as the first left; and upserting
\* then listing returns the upserted ids united with the ids already stored.
C6_IdempotentAlways ==
    [][ /\ (IsCall("get_live_system_data") /\ repeat' # "no")
           => SameRecords(hvac_systems', hvac_systems)
        /\ UpsertThenList ]_vars

\* C6 as amended: a get_live_system_data() right after another one whose store write
\* succeeded, the gateway's data unchanged, leaves the store with the same records as
\* the first left; and upserting then listing returns the upserted ids united with
\* the ids already stored.
C6_Idempotent ==
    [][ /\ (IsCall("get_live_system_data") /\ repeat' = "ok")
           => SameRecords(hvac_systems', hvac_systems)
        /\ UpsertThenList ]_vars

C6_Witness ==
    /\ repeat = "ok"
    /\ lastOp.store_ok
    /\ lastOp.gateway = "live"
    /\ Len(ret) = 2
    /\ \A r \in hvac_systems : r.id \in { "hp-1", "hp-2" } => r.updated_at = 2

\* No two rows of hvac_systems share an id.
UniqueIds(table) == \A r1, r2 \in table : r1.id = r2.id => r1 = r2

\* C7 as stated: the snapshot table holds at most one record per device id, no
\* operation removes an id, and the record of an id is the one written by the latest
\* get_live_system_data call that returned that id (no other step changes it).
C7_LatestReturnedStored ==
    [][ /\ UniqueIds(hvac_systems) /\ UniqueIds(hvac_systems')
        /\ { r.id : r \in hvac_systems } \subseteq { r.id : r \in hvac_systems' }
        /\ \A i \in SystemIds :
              IF IsCall("get_live_system_data") /\ Find(ret', i) # None
              THEN RowsOf(hvac_systems', i) = { SystemToRow(Find(ret', i)[1], now) }
              ELSE RowsOf(hvac_systems', i) = RowsOf(hvac_systems, i) ]_vars

\* C7 as amended: the snapshot table holds at most one record per device id, no
\* operation removes an id, and the record of an id is the one written by the latest
\* get_live_system_data call that returned that id and whose store write succeeded
\* (no other step changes it).
C7_LatestWrittenStored ==
    [][ /\ UniqueIds(hvac_systems) /\ UniqueIds(hvac_systems')
        /\ { r.id : r \in hvac_systems } \subseteq { r.id : r \in hvac_systems' }
        /\ \A i \in SystemIds :
              IF /\ IsCall("get_live_system_data")
                 /\ lastOp'.store_ok
                 /\ Find(ret', i) # None
              THEN RowsOf(hvac_systems', i) = { SystemToRow(Find(ret', i)[1], now) }
              ELSE RowsOf(hvac_systems', i) = RowsOf(hvac_systems, i) ]_vars

C7_Witness ==
    /\ lastOp.op = "get_live_system_data"
    /\ lastOp.store_ok
    /\ now = 2
    /\ ret = << HeatPumpToSystem(PumpA1) >>
    /\ RowsOf(hvac_systems, "hp-1") = { SystemToRow(HeatPumpToSystem(PumpA1), 2) }
    /\ \E r \in hvac_systems : r.id = "hp-2"

\* C8: the historical table holds at most one point per (system_id, register_name,
\* timestamp), so repeating a get_historical_data call adds no row.
C8_UpsertNotAccumulate ==
    \A r1, r2 \in historical_data :
        ( /\ r1.system_id = r2.system_id
          /\ r1.register_name = r2.register_name
          /\ r1.timestamp = r2.timestamp )
        => r1 = r2

\* C9: get_historical_data returns an empty list whenever system_id is not a device of
\* the gateway queried, in synthetic mode, in live mode and on fallback.
C9_UnknownIdEmpty ==
    ( /\ lastOp.op = "get_historical_data"
      /\ lastOp.system_id[1] \notin QueriedIds(lastOp.gateway) )
    => ret = <<>>

\* The list l holds exactly one point per whole hour of start_time..end_time, in
\* ascending order (none when start_time > end_time).
Hourly(l, start_time, end_time) ==
    /\ Len(l) = (IF start_time <= end_time THEN end_time - start_time + 1 ELSE 0)
    /\ \A k \in 1..Len(l) : l[k].time = start_time + k - 1

SetterNames == { "set_system_temperature", "set_system_operation_mode" }

\* C11: set_system_temperature and set_system_operation_mode return False when
\* system_id is not a device of the gateway in use, in synthetic mode as in live mode,
\* and True when it is one and nothing raised on the way.
C11_SetKnownDeviceOnly ==
    lastOp.op \in SetterNames
    => /\ (lastOp.system_id[1] \notin QueriedIds(lastOp.gateway)) => ret = FALSE
       /\ (lastOp.system_id[1] \in QueriedIds(lastOp.gateway) /\ lastOp.store_ok)
          => ret = TRUE

\* C12: a setter never writes the store: whatever it returns, the snapshot and the
\* historical tables are as before, so a get_cached_system_data right after it can
\* answer exactly what one right before it could.
C12_SetLeavesStore ==
    [][ (\E name \in SetterNames : IsCall(name))
        => /\ hvac_systems' = hvac_systems
           /\ historical_data' = historical_data
           /\ \A system_id \in SystemIdArgs :
                 SelectSystems(hvac_systems', system_id)
                 = SelectSystems(hvac_systems, system_id) ]_vars

C12_Witness ==
    /\ lastOp.op = "set_system_temperature"
    /\ lastOp.system_id = Some("hp-1")
    /\ ret = TRUE
    /\ issued # <<>>
    /\ hvac_systems # {}
    /\ historical_data # {}

\* The public operations of the manager.
ManagerOps ==
    { "get_live_system_data", "get_cached_system_data", "get_historical_data",
      "set_system_temperature", "set_system_operation_mode",
      "get_system_diagnosis", "get_optimization_suggestions" }

\* The value is one the operation is declared to return: a list, a bool, a dict with
\* an error or a status, a non-empty list of strings.
Structured(op, value) ==
    CASE op \in SetterNames -> value \in BOOLEAN
      [] op = "get_system_diagnosis" ->
            \/ DOMAIN value = { "error" }
            \/ { "status", "issues", "efficiency_score" } \subseteq DOMAIN value
      [] op = "get_optimization_suggestions" -> Len(value) >= 1
      [] OTHER -> Len(value) >= 0

\* C13: no public operation of the manager lets an exception out: with an unknown
\* system_id, a raising live gateway or a failing store it returns a structured value.
C13_NoExceptionEscapes ==
    lastOp.op \in ManagerOps => (~raised /\ Structured(lastOp.op, ret))

C13_Witness ==
    /\ lastOp.op = "get_system_diagnosis"
    /\ lastOp.system_id = Some("invalid-id")
    /\ lastOp.gateway = "fallback"
    /\ ~lastOp.store_ok
    /\ ~raised
    /\ ret = [ error |-> "System not found" ]

\* C14: when the store write inside get_live_system_data or get_historical_data
\* fails, the call returns exactly the list it obtained from the gateway (live or
\* synthetic) and both tables are as they were before the call.
C14_FailedWriteKeepsRead ==
    [][ /\ (IsCall("get_live_system_data") /\ ~lastOp'.store_ok)
           => /\ ret' = FetchSystems(lastOp'.system_id)
              /\ hvac_systems' = hvac_systems
              /\ historical_data' = historical_data
        /\ (IsCall("get_historical_data") /\ ~lastOp'.store_ok)
           => /\ IF lastOp'.gateway = "live"
                 THEN ret' \in VendorHistory(lastOp'.args[2], lastOp'.args[3])
                 ELSE ret' = _get_mock_historical_data(lastOp'.system_id[1],
                                 lastOp'.args[1], lastOp'.args[2], lastOp'.args[3])
              /\ hvac_systems' = hvac_systems
              /\ historical_data' = historical_data ]_vars

C14_Witness ==
    /\ lastOp.op = "get_live_system_data"
    /\ ~lastOp.store_ok
    /\ lastOp.gateway = "live"
    /\ ret = << HeatPumpToSystem(PumpA2), HeatPumpToSystem(PumpB) >>
    /\ \A r \in hvac_systems : r.id # "hp-2"
    /\ hvac_systems # {}

\* C15: no operation changes the mode flag or the connection set at construction; a
\* live fetch that raises makes that one call fall back, and the next call goes to the
\* live gateway again and returns its data when the vendor answers.
C15_FallbackPerCall ==
    [][ /\ use_mock_data' = use_mock_data
        /\ thermia' = thermia
        /\ (IsCall("get_live_system_data") /\ ~use_mock_data /\ thermia # None)
           => /\ lastOp'.gateway # "mock"
              /\ vendor.up => /\ lastOp'.gateway = "live"
                              /\ ret' = LiveSystems(vendor.heat_pumps,
                                                    lastOp'.system_id)
        /\ (IsCall("get_historical_data") /\ ~use_mock_data /\ thermia # None)
           => lastOp'.gateway # "mock" ]_vars

C15_Witness ==
    /\ ~use_mock_data
    /\ lastOp.op = "get_live_system_data"
    /\ lastOp.gateway = "live"
    /\ ret # <<>>
    /\ \E r \in hvac_systems : r.id = "mock-system-1"

\* C16: when the username or the password is absent at construction, the manager is
\* in synthetic mode whatever USE_MOCK_DATA says, and no operation reaches the live
\* gateway or sends it a command.
C16_NoCredentialsSynthetic ==
    (~TruthyStr(environ.THERMIA_USERNAME) \/ ~TruthyStr(environ.THERMIA_PASSWORD))
    => /\ use_mock_data
       /\ thermia = None
       /\ lastOp.gateway \in { "none", "mock" }
       /\ issued = <<>>

C16_Witness ==
    /\ environ.USE_MOCK_DATA = Some("false")
    /\ environ.THERMIA_USERNAME = Some("user")
    /\ environ.THERMIA_PASSWORD = None
    /\ lastOp.op = "set_system_temperature"
    /\ lastOp.system_id = Some("hp-1")
    /\ lastOp.gateway = "mock"
    /\ ret = TRUE

\* C17: the lazily constructed instance is built at most once per process, and all
\* callers of the accessor that get an instance get the same one, however their
\* first calls interleave.
C17_BuiltOnce ==
    /\ built <= 1
    /\ \A c1, c2 \in Callers :
          (got[c1] # None /\ got[c2] # None) => got[c1] = got[c2]

\* The diagnosis is of a device that was found: args holds its snapshot.
DiagnosedFound == lastOp.op = "get_system_diagnosis" /\ lastOp.args # <<>>

\* C18: the diagnosis has status ERROR with issues exactly ["System not found"] if
\* and only if system_id is not found; a found device never gets ERROR.
C18_ErrorIffNotFound ==
    lastOp.op = "get_system_diagnosis"
    => ( (lastOp.args = <<>>)
         <=> ( /\ "status" \in DOMAIN ret
               /\ ret.status = "ERROR"
               /\ ret.issues = <<"System not found">> ) )

\* The status the thresholds give a score.
StatusOfScore(score) ==
    IF score >= 90 THEN "EXCELLENT"
    ELSE IF score >= 70 THEN "GOOD"
    ELSE IF score >= 50 THEN "FAIR"
    ELSE "POOR"

\* C19: for a found device the status is the one the final efficiency_score gives:
\* EXCELLENT from 90, GOOD from 70, FAIR from 50, POOR below.
C19_StatusFromScore ==
    DiagnosedFound => ret.status = StatusOfScore(ret.efficiency_score)

\* The score the four checks give a snapshot, with alarm_penalty for active alarms.
ScoreOfChecks(system, alarm_penalty) ==
    100 - (IF system.active_alarms # <<>> THEN alarm_penalty ELSE 0)
        - (IF ~system.is_online THEN 30 ELSE 0)
        - (IF /\ system.indoor_temperature # None
              /\ system.heat_temperature # None
              /\ Abs(system.indoor_temperature[1] - system.heat_temperature[1]) > 30
           THEN 10 ELSE 0)
        - (IF /\ system.running_operational_statuses # <<>>
              /\ ~CompressorRunning(system)
           THEN 15 ELSE 0)

\* C20: for a found device efficiency_score is 100 minus the penalties of the checks
\* that fired (a fixed alarm penalty, 30 offline, 10 setpoint deviation, 15 compressor
\* not running); a device firing no check has score 100 and no issues.
C20_ScoreFromPenalties ==
    DiagnosedFound
    => /\ \E alarm_penalty \in { 20, 25 } :
             ret.efficiency_score = ScoreOfChecks(lastOp.args[1], alarm_penalty)
       /\ (ScoreOfChecks(lastOp.args[1], 20) = 100)
          => (ret.efficiency_score = 100 /\ ret.issues = <<>>)

\* The integration's diagnosis is of a device that was found.
IntegrationDiagnosed == lastOp.op = "diagnose_system" /\ lastOp.args # <<>>

\* The same snapshot with one more active alarm, with its last alarm taken away,
\* and with is_online set.
WithAlarm(system) ==
    [ system EXCEPT !.active_alarms = @ \o <<"Extra alarm">> ]

WithoutLastAlarm(system) ==
    [ system EXCEPT !.active_alarms = SubSeq(@, 1, Len(@) - 1) ]

WithOnline(system, online) == [ system EXCEPT !.is_online = online ]

\* C21: diagnosis monotonicity. Of two snapshots that differ only in one additional
\* active alarm, the one with the alarm has no higher efficiency_score; of two that
\* differ only in is_online, the offline one has no higher efficiency_score. Both
\* diagnoses are compared on every snapshot they are asked about.
C21_Monotone ==
    /\ DiagnosedFound =>
          LET system == lastOp.args[1]
              score(x) == ManagerDiagnosis(x.id, x, now).efficiency_score
          IN  /\ ret.efficiency_score = score(system)
              /\ score(WithAlarm(system)) <= ret.efficiency_score
              /\ system.active_alarms # <<>>
                    => ret.efficiency_score <= score(WithoutLastAlarm(system))
              /\ score(WithOnline(system, FALSE)) <= score(WithOnline(system, TRUE))
    /\ IntegrationDiagnosed =>
          LET system == lastOp.args[1]
              score(x) == IntegrationDiagnosis(x.id, x, now).efficiency_score[1]
          IN  /\ ret.efficiency_score = Some(score(system))
              /\ score(WithAlarm(system)) <= score(system)
              /\ system.active_alarms # <<>>
                    => score(system) <= score(WithoutLastAlarm(system))
              /\ score(WithOnline(system, FALSE)) <= score(WithOnline(system, TRUE))

\* An offline device with one alarm was diagnosed by the integration, and both the
\* alarm and being offline cost it score.
C21_Witness ==
    /\ IntegrationDiagnosed
    /\ Len(lastOp.args[1].active_alarms) = 1
    /\ ~lastOp.args[1].is_online
    /\ ret.efficiency_score[1] <
          IntegrationDiagnosis("hp-1", WithoutLastAlarm(lastOp.args[1]),
                               now).efficiency_score[1]
    /\ ret.efficiency_score[1] <
          IntegrationDiagnosis("hp-1", WithOnline(lastOp.args[1], TRUE),
                               now).efficiency_score[1]

Contains(items, item) == \E k \in 1..Len(items) : items[k] = item

\* C22: diagnosing a device that is offline and has active alarms yields a status in
\* {POOR, ERROR} and an issues list holding "System is offline" and every alarm.
C22_OfflineWithAlarms ==
    (/\ DiagnosedFound \/ IntegrationDiagnosed
     /\ ~lastOp.args[1].is_online
     /\ lastOp.args[1].active_alarms # <<>>)
    => /\ ret.status \in { "POOR", "ERROR" }
       /\ Contains(ret.issues, "System is offline")
       /\ \A k \in 1..Len(lastOp.args[1].active_alarms) :
             Contains(ret.issues, lastOp.args[1].active_alarms[k])

\* C23: for every found device, whatever its fields, efficiency_score lies in
\* 0..100, and it is strictly positive for an online device with no alarms.
C23_ScoreInRange ==
    /\ DiagnosedFound =>
          /\ ret.efficiency_score \in 0..100
          /\ (lastOp.args[1].is_online /\ lastOp.args[1].active_alarms = <<>>)
                => ret.efficiency_score > 0
    /\ IntegrationDiagnosed =>
          /\ ret.efficiency_score # None
          /\ ret.efficiency_score[1] \in 0..100
          /\ (lastOp.args[1].is_online /\ lastOp.args[1].active_alarms = <<>>)
                => ret.efficiency_score[1] > 0

\* The integration diagnosed a device on which every penalty that can be combined
\* was taken: offline, low differential, alarm, low hot water.
C23_Witness ==
    /\ IntegrationDiagnosed
    /\ ~lastOp.args[1].is_online
    /\ lastOp.args[1].active_alarms # <<>>
    /\ LowDifferential(lastOp.args[1])
    /\ LowHotWater(lastOp.args[1])
    /\ ret.efficiency_score = Some(20)

\* A suggestions call of the manager or of the integration has just returned.
Suggested ==
    lastOp.op \in { "get_optimization_suggestions",
                    "ThermiaHVACIntegration.get_optimization_suggestions" }

\* C24: get_optimization_suggestions returns at least one string for every system_id
\* and every snapshot; the manager's message "System is operating optimally" stands
\* alone, and is what a found device on which no rule fires gets.
C24_SuggestionsNonEmpty ==
    /\ Suggested => ret # <<>>
    /\ lastOp.op = "get_optimization_suggestions" =>
          /\ Contains(ret, "System is operating optimally") => Len(ret) = 1
          /\ (lastOp.args # <<>> /\ ManagerSuggestions(lastOp.args[1]) = <<>>)
                => ret = <<"System is operating optimally">>

\* The manager was asked about a found device on which no rule fires.
C24_Witness ==
    /\ lastOp.op = "get_optimization_suggestions"
    /\ lastOp.args # <<>>
    /\ ManagerSuggestions(lastOp.args[1]) = <<>>
    /\ ret = <<"System is operating optimally">>

\* C25: cache-fallback scenario. With a snapshot of "mock-001" in the store and a
\* vendor that raises on every call, get_live_system_data("mock-001") returns exactly
\* one snapshot with id "mock-001", the synthetic one, and the stored record of
\* "mock-001" is overwritten by it.
C25_CacheFallback ==
    (/\ lastOp.op = "get_live_system_data"
     /\ lastOp.system_id = Some("mock-001")
     /\ lastOp.gateway = "fallback")
    => /\ Len(ret) = 1
       /\ ret[1].id = "mock-001"
       /\ \E r \in hvac_systems : r.id = "mock-001" /\ r.updated_at # 0

SetpointDeviates(system) ==
    /\ system.indoor_temperature # None
    /\ system.heat_temperature # None
    /\ Abs(system.indoor_temperature[1] - system.heat_temperature[1]) > 30

\* C27: the setpoint-deviation check fires for every snapshot in which indoor and
\* heat temperature are both present (0 included) and |indoor - heat| > 3: the issue
\* "Temperature setpoint deviation" is appended and efficiency_score is 10 lower; it
\* does not fire when a value is absent or the difference is at most 3.
C27_DeviationCheckFires ==
    DiagnosedFound
    => LET system == lastOp.args[1]
           others == 85 - (IF AlarmCheck(system) THEN 20 ELSE 0)
                        - (IF CompressorCheck(system) THEN 15 ELSE 0)
       IN  /\ SetpointDeviates(system)
                <=> Contains(ret.issues, "Temperature setpoint deviation")
           /\ ret.efficiency_score =
                 others - (IF SetpointDeviates(system) THEN 10 ELSE 0)

\* A setter of the integration has just returned.
IntegrationSetDone == lastOp.op \in { "set_temperature", "set_operation_mode" }

\* C28: with a live connection, set_temperature / set_operation_mode for a device
\* the vendor lists, whose command is accepted, returns true and issues the command
\* exactly once in every state of the gateway object, also when no fetch was done on
\* it before; for an id the vendor does not list no command is issued.
C28_SetBeforeFetch ==
    (IntegrationSetDone /\ integration[1].thermia # None)
    => LET listed == FindHeatPump(vendor.heat_pumps, lastOp.system_id[1]) # None
       IN  /\ (listed /\ lastOp.store_ok) => (ret = TRUE /\ Len(issued) = 1)
           /\ ~listed => (ret = FALSE /\ issued = <<>>)

\* C29: in get_system_diagnosis a found device with a non-empty active_alarms list
\* always ends with status "POOR", whatever the number of alarms and other findings.
C29_AlarmMeansPoor ==
    (DiagnosedFound /\ lastOp.args[1].active_alarms # <<>>) => ret.status = "POOR"

\* The step is a diagnosis or a suggestions call of the manager.
DerivedCall ==
    lastOp'.op \in { "get_system_diagnosis", "get_optimization_suggestions" }

\* C30: the diagnosis and the suggestions never persist their own result. Their only
\* effect on the store is the upsert of the snapshot of the requested system_id:
\* every stored snapshot with another id and every historical point is unchanged,
\* no row other than that snapshot's appears, and for an unknown system_id the store
\* is unchanged altogether.
C30_DerivedFrame ==
    [][ DerivedCall =>
          /\ historical_data' = historical_data
          /\ { r \in hvac_systems' : r.id # lastOp'.system_id[1] }
               = { r \in hvac_systems : r.id # lastOp'.system_id[1] }
          /\ lastOp'.args = <<>> => hvac_systems' = hvac_systems
          /\ lastOp'.args # <<>> =>
                hvac_systems' \subseteq
                   hvac_systems \cup { SystemToRow(lastOp'.args[1], now) }
      ]_vars

\* A found device was diagnosed over a store that holds its snapshot, another
\* device's snapshot and a historical point.
C30_Witness ==
    /\ DiagnosedFound
    /\ lastOp.store_ok
    /\ \E r \in hvac_systems : r.id = lastOp.system_id[1]
    /\ \E r \in hvac_systems : r.id # lastOp.system_id[1]
    /\ historical_data # {}

====
